---- MODULE Spec2Model ----
(***************************************************************************)
(* Model of the lifeORGS task scheduler                                    *)
(* (calendarORGS/scheduling/eventScheduler.py, class Scheduler).           *)
(*                                                                         *)
(* Times are integer seconds.  Priority scores are held multiplied by      *)
(* ScoreScale (8), which makes every literal of the source (35/8 steps,    *)
(* 12.5 per urgency level) an integer.  One value of `now` stands for the  *)
(* successive time.time() reads of one scheduling run.                     *)
(***************************************************************************)
EXTENDS Integers, Sequences, FiniteSets, TLC

VARIABLES
    now,            \* time.time() of the run
    tasks,          \* table tasks:  rows in rowid order
    events,         \* table events: rows in rowid order
    blocks,         \* table blocks: rows in rowid order
    timeForecast,   \* argument of scheduleTasks: the horizon string, split
    pc,             \* position of the run
    tasksL,         \* local `tasks` of scheduleTasks (scored, sorted)
    blocksL,        \* local `blocks` of scheduleTasks (merged, sorted)
    availableTime,  \* local `availableTime`: the free slots
    i,              \* outer loop index of _assignTasksToSlots (1-based)
    scheduledTasks, \* local `scheduledTasks` of _assignTasksToSlots
    inserted,       \* rows INSERTed into events by the run's connection
    marked,         \* task ids UPDATEd to scheduled = 1 by the run's connection
    row,            \* a tasks row handed to the scorer
    taskDict,       \* the dict built from `row` by _giveTasks
    blocksArg,      \* argument of _findAvailableTimeSlots
    slotsRet,       \* its return value
    returned,       \* what scheduleTasks handed back to its caller
    cmd,            \* the command doToken dispatched last
    run2            \* a second scheduleTasks call running beside the first

vars == <<now, tasks, events, blocks, timeForecast, pc, tasksL, blocksL,
          availableTime, i, scheduledTasks, inserted, marked,
          row, taskDict, blocksArg, slotsRet, returned, cmd, run2>>

runVars == <<tasksL, blocksL, availableTime, i, scheduledTasks, inserted, marked>>
storeVars == <<now, tasks, events, blocks>>
fnVars == <<row, taskDict, blocksArg, slotsRet>>

----------------------------------------------------------------------------
(* Program constants *)

Day == 86400
Week == 604800
Buffer == 300
MinGap == 600
MaxUrgency == 5
ScoreScale == 8

(* Monday 00:00 local time of the modelled week *)
WeekStart == 10 * Week

----------------------------------------------------------------------------
(* Generic helpers *)

Range(s) == {s[k] : k \in DOMAIN s}

SeqsUpTo(S, n) == UNION {[1..m -> S] : m \in 0..n}

----------------------------------------------------------------------------
(* Scheduler._calculatePriorityScore *)

EscalatedUrgencyUncapped(urgency, timeDueDelta) ==
    IF timeDueDelta < 0
    THEN IF timeDueDelta >= -Day THEN urgency + 1
         ELSE IF timeDueDelta >= -2 * Day THEN urgency + 2
         ELSE IF timeDueDelta >= -3 * Day THEN urgency + 3
         ELSE IF timeDueDelta >= -4 * Day THEN urgency + 4
         ELSE MaxUrgency
    ELSE urgency

EscalatedUrgencyOneStep(urgency, timeDueDelta) ==
    IF timeDueDelta < 0
    THEN IF urgency + 1 <= MaxUrgency THEN urgency + 1 ELSE MaxUrgency
    ELSE urgency

(* the overdue branch: the if/elif chain that rewrites task['urgency'] *)
EscalatedUrgency(urgency, timeDueDelta) ==
    IF timeDueDelta < 0
    THEN IF timeDueDelta >= -Day /\ urgency + 1 <= MaxUrgency THEN urgency + 1
         ELSE IF timeDueDelta >= -2 * Day /\ urgency + 2 <= MaxUrgency THEN urgency + 2
         ELSE IF timeDueDelta >= -3 * Day /\ urgency + 3 <= MaxUrgency THEN urgency + 3
         ELSE IF timeDueDelta >= -4 * Day /\ urgency + 4 <= MaxUrgency THEN urgency + 4
         ELSE MaxUrgency
    ELSE urgency

(* match timeDueDelta: 35, then 30 - 35k/8 for k = 2..7, then 0 *)
DueDatePoints(timeDueDelta) ==
    IF timeDueDelta <= Day THEN 35 * ScoreScale
    ELSE IF timeDueDelta <= 2 * Day THEN 30 * ScoreScale - 70
    ELSE IF timeDueDelta <= 3 * Day THEN 30 * ScoreScale - 105
    ELSE IF timeDueDelta <= 4 * Day THEN 30 * ScoreScale - 140
    ELSE IF timeDueDelta <= 5 * Day THEN 30 * ScoreScale - 175
    ELSE IF timeDueDelta <= 6 * Day THEN 30 * ScoreScale - 210
    ELSE IF timeDueDelta <= 7 * Day THEN 30 * ScoreScale - 245
    ELSE 0

UrgencyPointsSameFor2And3(urgency) ==
    CASE urgency = 1 -> 0
      [] urgency = 2 -> 100
      [] urgency = 3 -> 100
      [] urgency = 4 -> 300
      [] urgency = 5 -> 400
      [] OTHER -> 0

(* match task['urgency']: 0, 12.5, 25, 37.5, 50; no case for other values *)
UrgencyPoints(urgency) ==
    CASE urgency = 1 -> 0
      [] urgency = 2 -> 100
      [] urgency = 3 -> 200
      [] urgency = 4 -> 300
      [] urgency = 5 -> 400
      [] OTHER -> 0

(* match task['taskTime']: 15, 12, 9, 6, 3, 0 *)
DurationPoints(taskTime) ==
    IF taskTime <= 300 THEN 15 * ScoreScale
    ELSE IF taskTime <= 900 THEN 12 * ScoreScale
    ELSE IF taskTime <= 1800 THEN 9 * ScoreScale
    ELSE IF taskTime <= 3600 THEN 6 * ScoreScale
    ELSE IF taskTime <= 7200 THEN 3 * ScoreScale
    ELSE 0

CalculatePriorityScoreStoredUrgency(task, t) ==
    LET timeDueDelta == task.dueDate - t
    IN  DueDatePoints(timeDueDelta)
        + UrgencyPoints(task.urgency)
        + DurationPoints(task.taskTime)

(* the returned priorityScore (times ScoreScale) of a task dict at time t *)
CalculatePriorityScore(task, t) ==
    LET timeDueDelta == task.dueDate - t
    IN  DueDatePoints(timeDueDelta)
        + UrgencyPoints(EscalatedUrgency(task.urgency, timeDueDelta))
        + DurationPoints(task.taskTime)

(* one iteration of the loop of _giveTasks: build the dict from the row,   *)
(* score it (which rewrites its urgency), attach the score                 *)
ScoredTaskDict(r, t) ==
    [iD            |-> r.task,
     dueDate       |-> r.dueDate,
     urgency       |-> EscalatedUrgency(r.urgency, r.dueDate - t),
     taskTime      |-> r.unixtime,
     priorityScore |-> CalculatePriorityScore(
                          [dueDate |-> r.dueDate, urgency |-> r.urgency,
                           taskTime |-> r.unixtime], t)]

----------------------------------------------------------------------------
(* utils/timeUtilitities/timeUtil.py *)

TimeOutAcceptsAnyUnit(timeString) == FALSE

(* timeOut: timeString.split(" "), unit "D" -> days in seconds, else raise *)
TimeOutRaises(timeString) == timeString[2] # "D"

TimeOut(timeString) == timeString[1] * Day

(* deltaToStartOfWeek: weekday*86400 + hour*3600 + minute*60 + second of   *)
(* the local date of currentTime; local Monday 00:00 is a multiple of Week *)
DeltaToStartOfWeek(currentTime) ==
    LET weekday == (currentTime \div Day) % 7
        hour    == (currentTime % Day) \div 3600
        minute  == (currentTime % 3600) \div 60
        second  == currentTime % 60
    IN  weekday * Day + hour * 3600 + minute * 60 + second

----------------------------------------------------------------------------
(* Scheduler._giveTasks, giveEvents, _giveBlocks, _getSchedulingData *)

GiveTasksUnfiltered(tbl, t) == [k \in DOMAIN tbl |-> ScoredTaskDict(tbl[k], t)]

(* SELECT * FROM tasks WHERE scheduled = 0 AND completed = 0, each row     *)
(* turned into a scored dict                                               *)
GiveTasks(tbl, t) ==
    LET sel == SelectSeq(tbl, LAMBDA r : r.scheduled = 0 /\ r.completed = 0)
    IN  [k \in DOMAIN sel |-> ScoredTaskDict(sel[k], t)]

(* SELECT * FROM events WHERE unixtimeEnd > now AND unixtimeStart < now + horizon *)
GiveEvents(tbl, t, horizon) ==
    SelectSeq(tbl, LAMBDA e : e.unixtimeEnd > t /\ e.unixtimeStart < t + horizon)

GiveBlocksShiftsStartOnly(tbl, t) ==
    LET weekSecDelta == DeltaToStartOfWeek(t)
        startOfWeek  == t - weekSecDelta
        sel == SelectSeq(tbl, LAMBDA b : b[2] > weekSecDelta)
    IN  [k \in DOMAIN sel |-> <<sel[k][1] + startOfWeek, sel[k][2]>>]

GiveBlocksWholeWeek(tbl, t) ==
    LET weekSecDelta == DeltaToStartOfWeek(t)
        startOfWeek  == t - weekSecDelta
        sel == SelectSeq(tbl, LAMBDA b : b[2] > 0)
    IN  [k \in DOMAIN sel |-> <<sel[k][1] + startOfWeek, sel[k][2] + startOfWeek>>]

(* SELECT * FROM blocks WHERE timeEnd > weekSecDelta, shifted by startOfWeek *)
GiveBlocks(tbl, t) ==
    LET weekSecDelta == DeltaToStartOfWeek(t)
        startOfWeek  == t - weekSecDelta
        sel == SelectSeq(tbl, LAMBDA b : b[2] > weekSecDelta)
    IN  [k \in DOMAIN sel |-> <<sel[k][1] + startOfWeek, sel[k][2] + startOfWeek>>]

SortTasksTiesReversed(s) ==
    [p \in DOMAIN s |->
        s[CHOOSE j \in DOMAIN s :
            p = 1 + Cardinality({m \in DOMAIN s :
                                   s[m].priorityScore > s[j].priorityScore})
                  + Cardinality({m \in DOMAIN s :
                                   m > j /\ s[m].priorityScore = s[j].priorityScore})]]

(* tasks.sort(key=priorityScore, reverse=True): stable, descending *)
RECURSIVE SortTasks(_)
SortTasks(s) ==
    IF s = <<>> THEN <<>>
    ELSE LET rest == SortTasks(SubSeq(s, 1, Len(s) - 1))
             x    == s[Len(s)]
             k    == Cardinality({m \in DOMAIN rest :
                                   rest[m].priorityScore >= x.priorityScore})
         IN  SubSeq(rest, 1, k) \o <<x>> \o SubSeq(rest, k + 1, Len(rest))

(* blocks.sort(key=lambda x: x[0]): stable, ascending by start *)
RECURSIVE SortBlocks(_)
SortBlocks(s) ==
    IF s = <<>> THEN <<>>
    ELSE LET rest == SortBlocks(SubSeq(s, 1, Len(s) - 1))
             x    == s[Len(s)]
             k    == Cardinality({m \in DOMAIN rest : rest[m][1] <= x[1]})
         IN  SubSeq(rest, 1, k) \o <<x>> \o SubSeq(rest, k + 1, Len(rest))

(* the four event.remove calls leave [unixtimeStart, unixtimeEnd] *)
EventInterval(e) == <<e.unixtimeStart, e.unixtimeEnd>>

(* the merged, sorted occupied-interval list *)
MergedBlocks(evs, blks) ==
    SortBlocks(blks \o [k \in DOMAIN evs |-> EventInterval(evs[k])])

----------------------------------------------------------------------------
(* Scheduler._findAvailableTimeSlots *)

FindAvailableTimeSlotsGapAtLeast(blks) ==
    LET RECURSIVE Walk(_)
        Walk(n) ==
            IF n >= Len(blks) THEN <<>>
            ELSE LET delta == blks[n + 1][1] - blks[n][2]
                 IN  IF delta >= MinGap
                     THEN <<[blockTime  |-> delta - MinGap,
                             blockStart |-> blks[n][2] + Buffer,
                             blockEnd   |-> blks[n + 1][1] - Buffer]>> \o Walk(n + 1)
                     ELSE Walk(n + 1)
    IN  Walk(1)

FindAvailableTimeSlotsNoMinGap(blks) ==
    LET RECURSIVE Walk(_)
        Walk(n) ==
            IF n >= Len(blks) THEN <<>>
            ELSE LET delta == blks[n + 1][1] - blks[n][2]
                 IN  IF delta > 0
                     THEN <<[blockTime  |-> delta - MinGap,
                             blockStart |-> blks[n][2] + Buffer,
                             blockEnd   |-> blks[n + 1][1] - Buffer]>> \o Walk(n + 1)
                     ELSE Walk(n + 1)
    IN  Walk(1)

FindAvailableTimeSlots(blks) ==
    LET RECURSIVE Walk(_)
        Walk(n) ==
            IF n >= Len(blks) THEN <<>>
            ELSE LET delta == blks[n + 1][1] - blks[n][2]
                 IN  IF delta > MinGap
                     THEN <<[blockTime  |-> delta - MinGap,
                             blockStart |-> blks[n][2] + Buffer,
                             blockEnd   |-> blks[n + 1][1] - Buffer]>> \o Walk(n + 1)
                     ELSE Walk(n + 1)
    IN  Walk(1)

----------------------------------------------------------------------------
(* Scheduler._assignTasksToSlots: one pass of the outer loop *)

(* the inner loop: the first j with availableTime[j]['blockTime'] >        *)
(* taskTime, 0 when the loop ends without a break                          *)
FirstFit(slots, taskTime) ==
    LET fits == {j \in DOMAIN slots : slots[j].blockTime > taskTime}
    IN  IF fits = {} THEN 0 ELSE CHOOSE j \in fits : \A m \in fits : j <= m

(* the row of INSERT INTO events VALUES (iD, description, taskStart, taskEnd, 1, 0); *)
(* the description is reduced to the urgency level it embeds               *)
TaskEvent(t, slot) ==
    [event         |-> t.iD,
     description   |-> t.urgency,
     unixtimeStart |-> slot.blockStart,
     unixtimeEnd   |-> slot.blockEnd + t.taskTime,
     task          |-> 1,
     completed     |-> 0]

(* availableTime[j]['blockStart'] += taskTime + 300 *)
ShrinkSlot(slot, taskTime) ==
    [slot EXCEPT !.blockStart = slot.blockStart + taskTime + Buffer]

AssignStep ==
    /\ pc = "assign"
    /\ i <= Len(tasksL)
    /\ LET t == tasksL[i]
           j == FirstFit(availableTime, t.taskTime)
       IN  IF j # 0
           THEN /\ inserted' = Append(inserted, TaskEvent(t, availableTime[j]))
                /\ marked' = marked \cup {t.iD}
                /\ scheduledTasks' = Append(scheduledTasks, t)
                /\ availableTime' = [availableTime EXCEPT
                                        ![j] = ShrinkSlot(availableTime[j], t.taskTime)]
           ELSE UNCHANGED <<inserted, marked, scheduledTasks, availableTime>>
    /\ i' = i + 1
    /\ UNCHANGED <<storeVars, timeForecast, pc, tasksL, blocksL, fnVars,
                   returned, cmd, run2>>

CommitWritesEscalatedUrgency ==
    /\ pc = "assign"
    /\ i > Len(tasksL)
    /\ events' = events \o inserted
    /\ tasks' = [k \in DOMAIN tasks |->
                    IF tasks[k].task \in marked
                    THEN [tasks[k] EXCEPT
                            !.scheduled = 1,
                            !.urgency = EscalatedUrgency(tasks[k].urgency,
                                                         tasks[k].dueDate - now)]
                    ELSE tasks[k]]
    /\ pc' = "done"
    /\ returned' = [type |-> "NoneType"]
    /\ UNCHANGED <<now, blocks, timeForecast, runVars, fnVars, cmd, run2>>

(* connector.conn.commit(): the run's INSERTs and UPDATEs reach the tables. *)
(* _assignTasksToSlots then returns scheduledTasks to scheduleTasks, whose  *)
(* last statement is that call without `return`: its caller gets None      *)
Commit ==
    /\ pc = "assign"
    /\ i > Len(tasksL)
    /\ events' = events \o inserted
    /\ tasks' = [k \in DOMAIN tasks |->
                    IF tasks[k].task \in marked
                    THEN [tasks[k] EXCEPT !.scheduled = 1]
                    ELSE tasks[k]]
    /\ pc' = "done"
    /\ returned' = [type |-> "NoneType"]
    /\ UNCHANGED <<now, blocks, timeForecast, runVars, fnVars, cmd, run2>>

StoreRejectsKeepsExecuted ==
    /\ pc = "assign"
    /\ events' = events \o inserted
    /\ tasks' = [k \in DOMAIN tasks |->
                    IF tasks[k].task \in marked
                    THEN [tasks[k] EXCEPT !.scheduled = 1]
                    ELSE tasks[k]]
    /\ pc' = "failed"
    /\ UNCHANGED <<now, blocks, timeForecast, runVars, fnVars, returned, cmd, run2>>

(* a cursor.execute of the loop (the INSERT, or the UPDATE after it) or    *)
(* the final commit raises sqlite3.Error.  The exception leaves            *)
(* _assignTasksToSlots and scheduleTasks; `connector`, which only that     *)
(* frame holds, is dropped without commit, and sqlite discards the         *)
(* statements it had executed.  inserted and marked keep what they were.   *)
StoreRejects ==
    /\ pc = "assign"
    /\ \/ /\ i <= Len(tasksL)
          /\ LET t == tasksL[i]
                 j == FirstFit(availableTime, t.taskTime)
             IN  /\ j # 0
                 /\ \E atUpdate \in BOOLEAN :
                       inserted' = IF atUpdate
                                   THEN Append(inserted, TaskEvent(t, availableTime[j]))
                                   ELSE inserted
       \/ /\ i > Len(tasksL)
          /\ inserted' = inserted
    /\ pc' = "failed"
    /\ UNCHANGED <<storeVars, timeForecast, tasksL, blocksL, availableTime, i,
                   scheduledTasks, marked, fnVars, returned, cmd, run2>>

----------------------------------------------------------------------------
(* Scheduler.scheduleTasks: the steps before the assignment loop *)

(* horizon strings a caller passes, split at the blank *)
Horizons == {<<1, "D">>, <<14, "D">>, <<2, "W">>}

(* _getSchedulingData(timeForecast): _giveTasks, giveEvents (whose timeOut *)
(* raises on a unit other than "D"), _giveBlocks, the two sorts, the merge *)
GetSchedulingData ==
    /\ pc \in {"idle", "done", "error", "failed"}
    /\ \E h \in Horizons :
         /\ timeForecast' = h
         /\ IF TimeOutRaises(h)
            THEN /\ pc' = "error"
                 /\ tasksL' = <<>>
                 /\ blocksL' = <<>>
            ELSE /\ pc' = "slots"
                 /\ tasksL' = SortTasks(GiveTasks(tasks, now))
                 /\ blocksL' = MergedBlocks(GiveEvents(events, now, TimeOut(h)),
                                            GiveBlocks(blocks, now))
    /\ availableTime' = <<>>
    /\ i' = 1
    /\ scheduledTasks' = <<>>
    /\ inserted' = <<>>
    /\ marked' = {}
    /\ returned' = [type |-> "pending"]
    /\ cmd' = [verb |-> "SCHEDULE", iD |-> "", wasScheduled |-> FALSE]
    /\ UNCHANGED <<storeVars, fnVars, run2>>

(* availableTime = Scheduler._findAvailableTimeSlots(blocks) *)
FindSlots ==
    /\ pc = "slots"
    /\ availableTime' = FindAvailableTimeSlots(blocksL)
    /\ pc' = "assign"
    /\ UNCHANGED <<storeVars, timeForecast, tasksL, blocksL, i, scheduledTasks,
                   inserted, marked, fnVars, returned, cmd, run2>>

----------------------------------------------------------------------------
(* The scheduler on a store *)

MaxTasks == 2
MaxBlocks == 2
MaxEvents == 2

(* seconds into the week at which a run happens: Monday 01:00, Tuesday 01:00 *)
NowOffsets == {3600, 90000}

(* rows as TokenAdd.addTask writes them: scheduled and completed False,     *)
(* taskTime and urgency as the tokenizer parsed them, unchecked ("00:00"   *)
(* gives D's duration 0, "7" gives E's urgency); F is a row marked         *)
(* completed, which addTask's duplicate check and _giveTasks' query expect; *)
(* G scores exactly as B does                                              *)
TaskCatalog(t) ==
    {[task |-> "A", unixtime |-> 3600, urgency |-> 5, scheduled |-> 0,
      dueDate |-> t + Day, completed |-> 0],
     [task |-> "B", unixtime |-> 1800, urgency |-> 2, scheduled |-> 0,
      dueDate |-> t + 10 * Day, completed |-> 0],
     [task |-> "C", unixtime |-> 600, urgency |-> 4, scheduled |-> 0,
      dueDate |-> t - 3600, completed |-> 0],
     [task |-> "D", unixtime |-> 0, urgency |-> 3, scheduled |-> 0,
      dueDate |-> t + 2 * Day, completed |-> 0],
     [task |-> "E", unixtime |-> 900, urgency |-> 7, scheduled |-> 0,
      dueDate |-> t + 2 * Day, completed |-> 0],
     [task |-> "F", unixtime |-> 900, urgency |-> 3, scheduled |-> 0,
      dueDate |-> t + Day, completed |-> 1],
     [task |-> "G", unixtime |-> 1200, urgency |-> 2, scheduled |-> 0,
      dueDate |-> t + 9 * Day, completed |-> 0]}

(* rows as TokenAdd.addBlock writes them: offsets into the week *)
BlockCatalog == {<<28800, 57600>>, <<100000, 110000>>, <<120000, 130000>>}

(* rows of user events *)
EventCatalog ==
    {[event |-> "Doctor", description |-> 0, unixtimeStart |-> WeekStart + 75600,
      unixtimeEnd |-> WeekStart + 79200, task |-> 0, completed |-> 0],
     [event |-> "Gym", description |-> 0, unixtimeStart |-> WeekStart + 122400,
      unixtimeEnd |-> WeekStart + 126000, task |-> 0, completed |-> 0]}

Injective(s) == \A a, b \in DOMAIN s : a # b => s[a] # s[b]

TaskTables(t) ==
    {s \in SeqsUpTo(TaskCatalog(t), MaxTasks) : Injective(s)}

BlockTables == {s \in SeqsUpTo(BlockCatalog, MaxBlocks) : Injective(s)}

EventTables == {s \in SeqsUpTo(EventCatalog, MaxEvents) : Injective(s)}

NoRun ==
    /\ timeForecast = <<0, "D">>
    /\ tasksL = <<>>
    /\ blocksL = <<>>
    /\ availableTime = <<>>
    /\ i = 1
    /\ scheduledTasks = <<>>
    /\ inserted = <<>>
    /\ marked = {}

NoCall ==
    /\ row = [task |-> "A", unixtime |-> 1, urgency |-> 1, scheduled |-> 0,
              dueDate |-> 0, completed |-> 0]
    /\ taskDict = <<>>
    /\ blocksArg = <<>>
    /\ slotsRet = <<>>

(* no second call is running *)
NoRun2 ==
    [pc |-> "idle", tasksL |-> <<>>, blocksL |-> <<>>, inserted |-> <<>>,
     marked |-> {}, raced |-> FALSE]

(* nothing dispatched, nothing returned *)
NoCommand ==
    /\ returned = [type |-> "pending"]
    /\ cmd = [verb |-> "NONE", iD |-> "", wasScheduled |-> FALSE]
    /\ run2 = NoRun2

Init ==
    /\ now \in {WeekStart + o : o \in NowOffsets}
    /\ tasks \in TaskTables(now)
    /\ blocks \in BlockTables
    /\ events \in EventTables
    /\ pc = "idle"
    /\ NoCommand
    /\ NoRun
    /\ NoCall

Next == GetSchedulingData \/ FindSlots \/ AssignStep \/ Commit \/ StoreRejects

Spec == Init /\ [][Next]_vars

----------------------------------------------------------------------------
(* The assignment loop on its own: any scored task list, any slot list *)

MaxAssignTasks == 3
MaxAssignIntervals == 3

AssignNow == WeekStart + 3600

AssignBase == WeekStart + Day

AssignIds == <<"A", "B", "C", "D", "E">>

AssignTaskTimes == {600, 900, 1800}

AssignUrgencies == {2, 4}

(* task tables whose k-th row carries the k-th identifier *)
AssignTaskTables ==
    {s \in SeqsUpTo([task : Range(AssignIds), unixtime : AssignTaskTimes,
                     urgency : AssignUrgencies, scheduled : {0},
                     dueDate : {AssignNow + 2 * Day}, completed : {0}],
                    MaxAssignTasks) :
        \A k \in DOMAIN s : s[k].task = AssignIds[k]}

(* occupied intervals leaving gaps of 1300, 2500 and 700 seconds *)
AssignIntervals ==
    {<<AssignBase, AssignBase + 100>>,
     <<AssignBase + 1400, AssignBase + 1500>>,
     <<AssignBase + 4000, AssignBase + 4100>>,
     <<AssignBase + 4800, AssignBase + 5000>>}

IsSortedByStart(s) == \A a, b \in DOMAIN s : a < b => s[a][1] <= s[b][1]

AssignIntervalLists ==
    {s \in SeqsUpTo(AssignIntervals, MaxAssignIntervals) :
        Injective(s) /\ IsSortedByStart(s)}

InitAssign ==
    /\ now = AssignNow
    /\ tasks \in AssignTaskTables
    /\ blocks = <<>>
    /\ events = <<>>
    /\ timeForecast = <<14, "D">>
    /\ pc = "assign"
    /\ NoCommand
    /\ tasksL = SortTasks(GiveTasks(tasks, now))
    /\ blocksL \in AssignIntervalLists
    /\ availableTime = FindAvailableTimeSlots(blocksL)
    /\ i = 1
    /\ scheduledTasks = <<>>
    /\ inserted = <<>>
    /\ marked = {}
    /\ NoCall

NextAssign == AssignStep \/ Commit

SpecAssign == InitAssign /\ [][NextAssign]_vars

----------------------------------------------------------------------------
(* The slot finder on its own: any sorted list of occupied intervals,      *)
(* overlapping and nested ones included                                    *)

MaxIntervals == 3

(* instants, as seconds after WeekStart; gaps of 600, 601 and 1200 occur *)
SlotTimes == {0, 300, 900, 1500, 1501, 2700}

SlotIntervals ==
    {<<WeekStart + a, WeekStart + b>> : a, b \in SlotTimes} \cap
    {iv \in Int \X Int : iv[1] < iv[2]}

SlotIntervalLists ==
    {s \in SeqsUpTo(SlotIntervals, MaxIntervals) : IsSortedByStart(s)}

InitSlots ==
    /\ now = AssignNow
    /\ tasks = <<>>
    /\ blocks = <<>>
    /\ events = <<>>
    /\ pc = "call"
    /\ NoCommand
    /\ NoRun
    /\ row = [task |-> "A", unixtime |-> 1, urgency |-> 1, scheduled |-> 0,
              dueDate |-> 0, completed |-> 0]
    /\ taskDict = <<>>
    /\ blocksArg \in SlotIntervalLists
    /\ slotsRet = <<>>

CallFindAvailableTimeSlots ==
    /\ pc = "call"
    /\ slotsRet' = FindAvailableTimeSlots(blocksArg)
    /\ pc' = "slotted"
    /\ UNCHANGED <<storeVars, timeForecast, runVars, row, taskDict, blocksArg,
                   returned, cmd, run2>>

NextSlots == CallFindAvailableTimeSlots

SpecSlots == InitSlots /\ [][NextSlots]_vars

----------------------------------------------------------------------------
(* The scorer on its own: one task row, every bucket boundary *)

ScoreNow == WeekStart + 3600

(* dueDate - now: both sides of every threshold of the scorer *)
ScoreDueDeltas ==
    {-4 * Day - 1, -4 * Day, -3 * Day - 1, -3 * Day, -2 * Day - 1, -2 * Day,
     -Day - 1, -Day, -1, 0, 1, Day, Day + 1, 2 * Day, 2 * Day + 1, 3 * Day,
     3 * Day + 1, 4 * Day, 4 * Day + 1, 5 * Day, 5 * Day + 1, 6 * Day,
     6 * Day + 1, 7 * Day, 7 * Day + 1, 10 * Day}

ScoreTaskTimes == {1, 300, 301, 900, 901, 1800, 1801, 3600, 3601, 7200, 7201}

InitScore ==
    /\ now = ScoreNow
    /\ tasks = <<>>
    /\ blocks = <<>>
    /\ events = <<>>
    /\ pc = "call"
    /\ NoCommand
    /\ NoRun
    /\ row \in [task : {"A"}, unixtime : ScoreTaskTimes, urgency : 1..MaxUrgency,
                scheduled : {0}, dueDate : {now + d : d \in ScoreDueDeltas},
                completed : {0}]
    /\ taskDict = <<>>
    /\ blocksArg = <<>>
    /\ slotsRet = <<>>

(* one pass of the loop of _giveTasks over `row` *)
CallCalculatePriorityScore ==
    /\ pc = "call"
    /\ taskDict' = ScoredTaskDict(row, now)
    /\ pc' = "scored"
    /\ UNCHANGED <<storeVars, timeForecast, runVars, row, blocksArg, slotsRet,
                   returned, cmd, run2>>

NextScore == CallCalculatePriorityScore

SpecScore == InitScore /\ [][NextScore]_vars

----------------------------------------------------------------------------
(* The commands that change tasks, issued one at a time between runs       *)
(* (TokenActions.doToken dispatches one command per call)                  *)

MaxOpsTasks == 2

OpsNow == WeekStart + 3600

OpsIds == {"B", "C"}

(* the tasks the ADD TASK commands name *)
OpsTokens(t) == {r \in TaskCatalog(t) : r.task \in OpsIds}

(* MODIFY TASK <iD> URGENCY 5 and MODIFY TASK <iD> TIME 00:15 *)
ModifyChoices == {<<"urgency", 5>>, <<"unixtime", 900>>}

BetweenRuns == pc \in {"idle", "done", "error", "failed"}

EventRows(tbl, id) == {k \in DOMAIN tbl : tbl[k].event = id}

(* TokenRemove.removeEvent: DELETE FROM events WHERE event=?, commit *)
RemoveEvent(tbl, id) == SelectSeq(tbl, LAMBDA e : e.event # id)

(* TokenAdd.addTask: refuse a name that has an uncompleted row, else       *)
(* insert the row with scheduled and completed False                       *)
AddTask ==
    /\ BetweenRuns
    /\ Len(tasks) < MaxOpsTasks
    /\ \E r \in OpsTokens(now) :
         /\ tasks' = IF \E q \in Range(tasks) : q.task = r.task /\ q.completed = 0
                     THEN tasks
                     ELSE Append(tasks, r)
         /\ cmd' = [verb |-> "ADD", iD |-> r.task, wasScheduled |-> FALSE]
    /\ UNCHANGED <<now, events, blocks, timeForecast, pc, runVars, fnVars,
                   returned, run2>>

(* TokenRemove.removeTask: DELETE FROM tasks WHERE task=?, commit; the     *)
(* events table is not touched                                             *)
RemoveTask ==
    /\ BetweenRuns
    /\ \E id \in OpsIds :
         /\ tasks' = SelectSeq(tasks, LAMBDA r : r.task # id)
         /\ cmd' = [verb |-> "REMOVE", iD |-> id,
                    wasScheduled |-> \E r \in Range(tasks) :
                                        r.task = id /\ r.scheduled = 1]
    /\ UNCHANGED <<now, events, blocks, timeForecast, pc, runVars, fnVars,
                   returned, run2>>

(* TokenModify.modifyTask.  Its connection SELECTs the events named iD and *)
(* fetches one row; if there is one, removeEvent deletes them on a second  *)
(* connection; then the first connection UPDATEs the column and sets       *)
(* scheduled = 0.  When two or more events match, the SELECT is still      *)
(* open after fetchone and keeps its read lock, removeEvent's commit       *)
(* raises "database is locked", and modifyTask ends there with nothing     *)
(* changed.                                                                *)
ModifyTask ==
    /\ BetweenRuns
    /\ \E id \in OpsIds, m \in ModifyChoices :
         /\ IF Cardinality(EventRows(events, id)) >= 2
            THEN UNCHANGED <<tasks, events>>
            ELSE /\ events' = RemoveEvent(events, id)
                 /\ tasks' = [k \in DOMAIN tasks |->
                                 IF tasks[k].task = id
                                 THEN [tasks[k] EXCEPT ![m[1]] = m[2], !.scheduled = 0]
                                 ELSE tasks[k]]
         /\ cmd' = [verb |-> "MODIFY", iD |-> id,
                    wasScheduled |-> \E r \in Range(tasks) :
                                        r.task = id /\ r.scheduled = 1]
    /\ UNCHANGED <<now, blocks, timeForecast, pc, runVars, fnVars, returned, run2>>

InitOps ==
    /\ now = OpsNow
    /\ tasks = <<>>
    /\ events = <<>>
    /\ blocks = <<<<28800, 57600>>, <<61200, 72000>>, <<100000, 110000>>>>
    /\ pc = "idle"
    /\ NoCommand
    /\ NoRun
    /\ NoCall

NextOps == Next \/ AddTask \/ RemoveTask \/ ModifyTask

SpecOps == InitOps /\ [][NextOps]_vars

----------------------------------------------------------------------------
(* Two scheduleTasks calls side by side.  The first is the run above, step *)
(* by step.  The second touches the store twice: when it reads (the three  *)
(* queries of _getSchedulingData) and when it writes (the loop and commit  *)
(* of _assignTasksToSlots); what it computes in between depends on its     *)
(* snapshot alone.                                                         *)

MaxRaceTasks == 2

RaceIds == {"A", "B", "C"}

RaceHorizon == <<14, "D">>

(* the whole loop of _assignTasksToSlots over a snapshot: the rows it      *)
(* INSERTs, in order                                                       *)
RECURSIVE AssignAll(_, _, _)
AssignAll(ts, slots, acc) ==
    IF ts = <<>>
    THEN acc
    ELSE LET t == Head(ts)
             j == FirstFit(slots, t.taskTime)
         IN  IF j # 0
             THEN AssignAll(Tail(ts),
                            [slots EXCEPT ![j] = ShrinkSlot(slots[j], t.taskTime)],
                            Append(acc, TaskEvent(t, slots[j])))
             ELSE AssignAll(Tail(ts), slots, acc)

(* the second call reads; raced records that the first call had read and   *)
(* not yet committed at that moment                                        *)
Run2Read ==
    /\ run2.pc = "idle"
    /\ run2' = [pc       |-> "read",
                tasksL   |-> SortTasks(GiveTasks(tasks, now)),
                blocksL  |-> MergedBlocks(GiveEvents(events, now, TimeOut(RaceHorizon)),
                                          GiveBlocks(blocks, now)),
                inserted |-> <<>>,
                marked   |-> {},
                raced    |-> pc \in {"slots", "assign"}]
    /\ UNCHANGED <<storeVars, timeForecast, pc, runVars, fnVars, returned, cmd>>

Run2WriteRechecks ==
    /\ run2.pc = "read"
    /\ ~(pc = "assign" /\ inserted # <<>>)
    /\ LET fresh == SortTasks(GiveTasks(tasks, now))
           still == SelectSeq(run2.tasksL,
                              LAMBDA t : \E k \in DOMAIN fresh : fresh[k].iD = t.iD)
           ins == AssignAll(still, FindAvailableTimeSlots(run2.blocksL), <<>>)
           ids == {e.event : e \in Range(ins)}
       IN  /\ events' = events \o ins
           /\ tasks' = [k \in DOMAIN tasks |->
                           IF tasks[k].task \in ids
                           THEN [tasks[k] EXCEPT !.scheduled = 1]
                           ELSE tasks[k]]
           /\ run2' = [run2 EXCEPT !.pc = "done", !.inserted = ins, !.marked = ids]
    /\ UNCHANGED <<now, blocks, timeForecast, pc, runVars, fnVars, returned, cmd>>

(* the second call writes and commits.  sqlite lets one connection write   *)
(* at a time: while the first call has executed an INSERT and not yet      *)
(* committed, the second waits.                                            *)
Run2Write ==
    /\ run2.pc = "read"
    /\ ~(pc = "assign" /\ inserted # <<>>)
    /\ LET ins == AssignAll(run2.tasksL, FindAvailableTimeSlots(run2.blocksL), <<>>)
           ids == {e.event : e \in Range(ins)}
       IN  /\ events' = events \o ins
           /\ tasks' = [k \in DOMAIN tasks |->
                           IF tasks[k].task \in ids
                           THEN [tasks[k] EXCEPT !.scheduled = 1]
                           ELSE tasks[k]]
           /\ run2' = [run2 EXCEPT !.pc = "done", !.inserted = ins, !.marked = ids]
    /\ UNCHANGED <<now, blocks, timeForecast, pc, runVars, fnVars, returned, cmd>>

RaceTaskTables(t) ==
    {s \in SeqsUpTo({r \in TaskCatalog(t) : r.task \in RaceIds}, MaxRaceTasks) :
        Injective(s)}

InitRace ==
    /\ now = OpsNow
    /\ tasks \in RaceTaskTables(now)
    /\ events \in EventTables
    /\ blocks = <<<<28800, 57600>>, <<61200, 72000>>, <<100000, 110000>>>>
    /\ pc = "idle"
    /\ NoCommand
    /\ NoRun
    /\ NoCall

NextRace == Next \/ Run2Read \/ Run2Write

SpecRace == InitRace /\ [][NextRace]_vars

----------------------------------------------------------------------------
(* Claims *)

Overlap(e1, e2) ==
    e1.unixtimeStart < e2.unixtimeEnd /\ e2.unixtimeStart < e1.unixtimeEnd

Unscheduled(r) == [r EXCEPT !.scheduled = 0]

EventOf(id) == CHOOSE e \in Range(inserted) : e.event = id

(* the scenario of C1: one block 28800-57600, no events but the run's own, *)
(* tasks A (urgency 5, 3600 s, due in 1 day) and B (urgency 2, 1800 s, due *)
(* in 10 days)                                                             *)
C1_Scenario ==
    /\ blocks = <<<<28800, 57600>>>>
    /\ events = inserted
    /\ Len(tasks) = 2
    /\ {Unscheduled(tasks[k]) : k \in DOMAIN tasks} =
          {r \in TaskCatalog(now) : r.task \in {"A", "B"}}

(* C1: in the end-to-end scenario a finished run has scored A above B, has *)
(* placed A at the start of the block for 3600 s, and has placed B in the  *)
(* same block 300 s after the end of A.                                    *)
C1_EndToEnd ==
    (pc = "done" /\ C1_Scenario) =>
        /\ Len(tasksL) = 2
        /\ tasksL[1].iD = "A"
        /\ tasksL[1].priorityScore > tasksL[2].priorityScore
        /\ \E e \in Range(inserted) : e.event = "A"
        /\ \E e \in Range(inserted) : e.event = "B"
        /\ LET startOfWeek == now - DeltaToStartOfWeek(now)
           IN  /\ EventOf("A").unixtimeStart = startOfWeek + 28800
               /\ EventOf("A").unixtimeEnd = EventOf("A").unixtimeStart + 3600
               /\ EventOf("B").unixtimeStart = EventOf("A").unixtimeEnd + 300
               /\ EventOf("B").unixtimeEnd <= startOfWeek + 57600

(* C2: the events created by one run for two distinct placed tasks never   *)
(* overlap.                                                                *)
C2_NoDoubleAssign ==
    \A a, b \in DOMAIN inserted :
        a # b => ~Overlap(inserted[a], inserted[b])

(* C3: after any number of placements every free slot has start <= end.    *)
C3_NoNegativeSlot ==
    \A j \in DOMAIN availableTime :
        availableTime[j].blockStart <= availableTime[j].blockEnd

Placing == pc = "assign" /\ Len(inserted') = Len(inserted) + 1

NewEvent == inserted'[Len(inserted')]

(* C4: a created event starts at the chosen slot's current start and ends  *)
(* exactly task.duration seconds later.                                    *)
C4_EventSpansDuration ==
    [][Placing =>
         /\ \E j \in DOMAIN availableTime :
               /\ availableTime'[j] # availableTime[j]
               /\ NewEvent.unixtimeStart = availableTime[j].blockStart
         /\ NewEvent.unixtimeEnd - NewEvent.unixtimeStart = tasksL[i].taskTime]_vars

(* C5: placing a task of duration d advances the slot's start by d + 300,  *)
(* leaves its end unchanged, and shortens the duration that later fit      *)
(* checks compare against by exactly d + 300.                              *)
C5_ShrinkInPlace ==
    [][Placing =>
         /\ \E j \in DOMAIN availableTime : availableTime'[j] # availableTime[j]
         /\ \A j \in DOMAIN availableTime :
               availableTime'[j] # availableTime[j] =>
                  /\ availableTime'[j].blockStart =
                        availableTime[j].blockStart + tasksL[i].taskTime + Buffer
                  /\ availableTime'[j].blockEnd = availableTime[j].blockEnd
                  /\ availableTime'[j].blockTime =
                        availableTime[j].blockTime - (tasksL[i].taskTime + Buffer)]_vars

Remaining(slot) == slot.blockEnd - slot.blockStart

(* C6: tasks are taken in descending score order; a placed task goes into  *)
(* the first slot whose remaining duration is strictly greater than its    *)
(* duration, and a task that no slot's remaining duration exceeds is not   *)
(* placed.                                                                 *)
C6_FirstFit ==
    [][(pc = "assign" /\ i' = i + 1) =>
         LET d    == tasksL[i].taskTime
             fits == {j \in DOMAIN availableTime : Remaining(availableTime[j]) > d}
         IN  /\ \A a, b \in DOMAIN tasksL :
                   a < b => tasksL[a].priorityScore >= tasksL[b].priorityScore
             /\ IF fits = {}
                THEN inserted' = inserted
                ELSE LET j == CHOOSE m \in fits : \A n \in fits : m <= n
                     IN  /\ Len(inserted') = Len(inserted) + 1
                         /\ NewEvent.event = tasksL[i].iD
                         /\ NewEvent.unixtimeStart = availableTime[j].blockStart
                         /\ availableTime'[j] # availableTime[j]]_vars

Gap(n) == blocksArg[n + 1][1] - blocksArg[n][2]

WideGaps == {n \in 1..(Len(blocksArg) - 1) : Gap(n) > 600}

C8_NoSlotElsewhere ==
    pc = "slotted" =>
        /\ \A n \in 1..(Len(blocksArg) - 1) :
              Gap(n) <= 600 =>
                 ~\E s \in Range(slotsRet) :
                      /\ s.blockStart = blocksArg[n][2] + 300
                      /\ s.blockEnd = blocksArg[n + 1][1] - 300
        /\ \A s \in Range(slotsRet) :
              /\ s.blockTime > 0
              /\ s.blockStart > blocksArg[1][1]
              /\ s.blockEnd < blocksArg[Len(blocksArg)][1]
        /\ Len(blocksArg) <= 1 => slotsRet = <<>>

C8_Witness ==
    /\ pc = "slotted"
    /\ Len(blocksArg) = 2
    /\ Gap(1) = 600
    /\ slotsRet = <<>>

(* C9: the priority score of a task with urgency 1..5 and positive         *)
(* duration is non-negative and at most 100, whatever its due date.        *)
C9_ScoreRange ==
    pc = "scored" =>
        /\ taskDict.priorityScore >= 0
        /\ taskDict.priorityScore <= 100 * 8

OtherUrgency(u) == ScoredTaskDict([row EXCEPT !.urgency = u], now)

(* C10 as stated: with the same due date and duration, a higher stored     *)
(* urgency gives a strictly higher score, overdue or not.                  *)
C10_StrictInUrgency ==
    pc = "scored" =>
        \A u \in 1..5 :
            u < row.urgency =>
                OtherUrgency(u).priorityScore < taskDict.priorityScore

(* C10 amended: with the same due date and duration, a higher stored       *)
(* urgency never gives a lower score, and gives a strictly higher one      *)
(* unless both tasks are overdue and both are escalated to urgency 5.      *)
C10_MonotoneInUrgency ==
    pc = "scored" =>
        \A u \in 1..5 :
            u < row.urgency =>
                /\ OtherUrgency(u).priorityScore <= taskDict.priorityScore
                /\ OtherUrgency(u).priorityScore = taskDict.priorityScore =>
                      /\ row.dueDate < now
                      /\ OtherUrgency(u).urgency = 5
                      /\ taskDict.urgency = 5

C10_Witness ==
    /\ pc = "scored"
    /\ row.urgency = 3
    /\ row.dueDate = now + 2 * 86400
    /\ OtherUrgency(2).priorityScore < taskDict.priorityScore

(* the deadline bucket of a due-date distance: 1 for "within a day" up to  *)
(* 7 for "6 to 7 days", 8 for "more than 7 days"                           *)
DueBucket(d) ==
    IF d > 7 * 86400 THEN 8
    ELSE CHOOSE k \in 1..7 : d <= k * 86400 /\ (k > 1 => d > (k - 1) * 86400)

OtherDueDate(d) == ScoredTaskDict([row EXCEPT !.dueDate = now + d], now)

(* C11: of two tasks with the same urgency and duration whose due dates    *)
(* are not in the past, the one due sooner never has the lower score, and  *)
(* has the strictly higher score when the two due dates are in different   *)
(* deadline buckets ("more than 7 days" against "6 to 7 days" included).   *)
C11_NearerDueScoresHigher ==
    pc = "scored" =>
        \A d \in ScoreDueDeltas :
            (row.dueDate >= now /\ row.dueDate - now < d) =>
                /\ OtherDueDate(d).priorityScore <= taskDict.priorityScore
                /\ DueBucket(row.dueDate - now) # DueBucket(d) =>
                      OtherDueDate(d).priorityScore < taskDict.priorityScore

(* C12: an overdue task with stored urgency u in 1..5 leaves the scorer    *)
(* with urgency at least min(5, u + 1) and at most 5.                      *)
C12_OverdueEscalates ==
    (pc = "scored" /\ row.dueDate < now /\ row.urgency \in 1..5) =>
        /\ taskDict.urgency >= (IF row.urgency + 1 < 5 THEN row.urgency + 1 ELSE 5)
        /\ taskDict.urgency <= 5

C12_Witness ==
    /\ pc = "scored"
    /\ row.dueDate = now - 86400 - 1
    /\ row.urgency = 2
    /\ taskDict.urgency = 4

(* C13: when scheduleTasks has finished, its caller holds the list of the  *)
(* tasks the run placed: a task is in the returned list exactly if the run *)
(* created an event for it, and the list is empty when nothing was placed. *)
C13_ReturnsPlaced ==
    pc = "done" =>
        /\ returned.type = "list"
        /\ \A r \in Range(tasks) :
              (\E k \in DOMAIN returned.items : returned.items[k].iD = r.task)
                 <=> (\E e \in Range(inserted) : e.event = r.task)
        /\ inserted = <<>> => returned.items = <<>>

(* C14: a call whose horizon string has a unit other than "D" ends in an   *)
(* error and goes no further: the step that takes such a horizon leaves    *)
(* the events and the tasks (their scheduled flags included) as they were, *)
(* writes nothing, and no later step of that call happens.                 *)
C14_BadHorizonStops ==
    [][timeForecast'[2] # "D" =>
          /\ pc' = "error"
          /\ events' = events
          /\ tasks' = tasks
          /\ inserted' = <<>>
          /\ marked' = {}]_vars

C14_Witness ==
    /\ pc = "error"
    /\ timeForecast = <<2, "W">>
    /\ \E r \in Range(tasks) : r.scheduled = 0 /\ r.completed = 0
    /\ inserted = <<>>

ValidTask(r) == r.unixtime > 0 /\ r.urgency \in 1..5

(* C15: a task whose duration is not positive or whose urgency is outside  *)
(* 1..5 makes scoring fail: it never appears among the scored tasks of a   *)
(* run, no run goes on past scoring it, and it is never placed.            *)
C15_InvalidTaskRejected ==
    \A r \in Range(tasks) :
        ~ValidTask(r) =>
            /\ ~\E k \in DOMAIN tasksL : tasksL[k].iD = r.task
            /\ ~\E e \in Range(inserted) : e.event = r.task
            /\ ~\E e \in Range(events) : e.event = r.task /\ e.task = 1
            /\ r.scheduled = 0

HasTaskEvent(id) == \E e \in Range(events) : e.event = id /\ e.task = 1

IsFlagged(id) == \E r \in Range(tasks) : r.task = id /\ r.scheduled = 1

(* C16: the writes of one run reach the store all together or not at all.  *)
(* While the run is placing, and after the store has rejected one of its   *)
(* statements, none of its event rows is in the events table and none of   *)
(* the tasks it placed is flagged; after its commit every event row is in  *)
(* the table and every task it placed has its event and its flag.          *)
C16_AllOrNothing ==
    /\ pc \in {"assign", "failed"} =>
          /\ \A e \in Range(inserted) : e \notin Range(events)
          /\ \A k \in DOMAIN scheduledTasks :
                /\ ~HasTaskEvent(scheduledTasks[k].iD)
                /\ ~IsFlagged(scheduledTasks[k].iD)
    /\ pc = "done" =>
          /\ \A e \in Range(inserted) : e \in Range(events)
          /\ \A k \in DOMAIN scheduledTasks :
                /\ HasTaskEvent(scheduledTasks[k].iD)
                /\ IsFlagged(scheduledTasks[k].iD)

C16_Witness ==
    /\ pc = "failed"
    /\ Len(scheduledTasks) = 1
    /\ Len(inserted) = 2
    /\ Len(tasksL) = 2

(* C18: whatever commands and runs have happened, one at a time, every     *)
(* task whose scheduled flag is set has exactly one event carrying its     *)
(* identifier.                                                             *)
C18_OneEventPerScheduledTask ==
    \A r \in Range(tasks) :
        r.scheduled = 1 => Cardinality(EventRows(events, r.task)) = 1

(* C19: right after modifyTask on a task that was scheduled, no event      *)
(* carries the task's identifier, the task's scheduled flag is 0, and the  *)
(* task is among those the next run reads.                                 *)
C19_ModifyUnschedules ==
    (cmd.verb = "MODIFY" /\ cmd.wasScheduled) =>
        /\ EventRows(events, cmd.iD) = {}
        /\ \A r \in Range(tasks) : r.task = cmd.iD => r.scheduled = 0
        /\ \E t \in Range(GiveTasks(tasks, now)) : t.iD = cmd.iD

(* C17: nothing serializes two runs.  When the second run read the same    *)
(* snapshot as the first, before the first committed, and both have        *)
(* committed, the second has written the very rows the first wrote: every  *)
(* task the runs placed has two events, and the two occupy the same time.  *)
C17_RacingRunsDoubleBook ==
    (/\ pc = "done"
     /\ run2.pc = "done"
     /\ run2.raced
     /\ run2.tasksL = tasksL
     /\ run2.blocksL = blocksL) =>
        /\ run2.inserted = inserted
        /\ \A e \in Range(inserted) :
              Cardinality({k \in DOMAIN events : events[k] = e}) >= 2

C17_Witness ==
    /\ pc = "done"
    /\ run2.pc = "done"
    /\ run2.raced
    /\ \E a, b \in DOMAIN events :
          /\ a < b
          /\ events[a].task = 1
          /\ events[b].task = 1
          /\ events[a].event = events[b].event
          /\ Overlap(events[a], events[b])

(* C20: a run writes events only for tasks that were neither scheduled nor *)
(* completed in the store it read, at most one per task; the run that      *)
(* follows does not read the tasks just placed; and so, with nothing but   *)
(* runs happening, no task ever has two task events.                       *)
C20_OnlyUnscheduledPlaced ==
    [][/\ pc = "assign" =>
             \A e \in Range(inserted') :
                 /\ \E r \in Range(tasks) : r.task = e.event
                 /\ \A r \in Range(tasks) :
                       r.task = e.event => r.scheduled = 0 /\ r.completed = 0
       /\ \A a, b \in DOMAIN inserted' :
             a # b => inserted'[a].event # inserted'[b].event
       /\ (pc = "done" /\ pc' = "slots") =>
             \A k \in DOMAIN tasksL' : tasksL'[k].iD \notin marked
       /\ \A a, b \in DOMAIN events' :
             (a # b /\ events'[a].task = 1 /\ events'[b].task = 1) =>
                 events'[a].event # events'[b].event]_vars

C20_Witness ==
    /\ pc = "done"
    /\ inserted = <<>>
    /\ \E r \in Range(tasks) : r.scheduled = 1 /\ HasTaskEvent(r.task)
    /\ \E r \in Range(tasks) : r.completed = 1 /\ ~HasTaskEvent(r.task)

(* whole days of lateness, rounded up: 1 for up to a day overdue, and so on *)
DaysOverdue(late) ==
    CHOOSE k \in 1..4 : late <= k * 86400 /\ (k > 1 => late > (k - 1) * 86400)

(* C22: a task with stored urgency u in 1..5 leaves the scorer with        *)
(* urgency u if it is not overdue, min(5, u + k) if it is at most k days   *)
(* overdue (smallest such k in 1..4), and 5 if it is more than 4 days      *)
(* overdue.                                                                *)
C22_ExactEscalation ==
    (pc = "scored" /\ row.urgency \in 1..5) =>
        LET late == now - row.dueDate
            u == row.urgency
        IN  taskDict.urgency =
                IF late <= 0 THEN u
                ELSE IF late > 4 * 86400 THEN 5
                ELSE IF u + DaysOverdue(late) < 5 THEN u + DaysOverdue(late)
                ELSE 5

C22_Witness ==
    /\ pc = "scored"
    /\ row.dueDate = now - 2 * 86400 - 1
    /\ row.urgency = 1
    /\ taskDict.urgency = 4

C21_RunWritesOnlyEventsAndFlags ==
    [][/\ blocks' = blocks
       /\ Len(events') >= Len(events)
       /\ SubSeq(events', 1, Len(events)) = events
       /\ \A k \in (Len(events) + 1)..Len(events') : events'[k] \in Range(inserted)
       /\ Len(tasks') = Len(tasks)
       /\ \A k \in DOMAIN tasks :
             /\ Unscheduled(tasks'[k]) = Unscheduled(tasks[k])
             /\ tasks[k].scheduled = 1 => tasks'[k].scheduled = 1]_vars

C21_Witness ==
    /\ pc = "done"
    /\ \E k \in DOMAIN scheduledTasks :
          /\ scheduledTasks[k].iD = "C"
          /\ scheduledTasks[k].urgency = 5
    /\ \E r \in Range(tasks) : r.task = "C" /\ r.urgency = 4 /\ r.scheduled = 1
    /\ \E e \in Range(events) : e.event = "Doctor"

RowIndex(id) == CHOOSE k \in DOMAIN tasks : tasks[k].task = id

(* C24: the task list the assigner works on holds the tasks that were read *)
(* in descending order of priority score, and tasks of equal score stand   *)
(* in the order of their rows in the store.                                *)
C24_SortedStable ==
    pc \in {"slots", "assign", "failed"} =>
        /\ Len(tasksL) = Cardinality({k \in DOMAIN tasks :
                                         tasks[k].scheduled = 0 /\ tasks[k].completed = 0})
        /\ \A a, b \in DOMAIN tasksL :
              a < b =>
                 /\ tasksL[a].priorityScore >= tasksL[b].priorityScore
                 /\ tasksL[a].priorityScore = tasksL[b].priorityScore =>
                       RowIndex(tasksL[a].iD) < RowIndex(tasksL[b].iD)

C24_Witness ==
    /\ pc = "assign"
    /\ Len(tasksL) = 2
    /\ tasksL[1].iD = "G"
    /\ tasksL[2].iD = "B"
    /\ tasksL[1].priorityScore = tasksL[2].priorityScore

(* the week of `now` begins at local Monday 00:00 *)
ThisWeekStart == now - DeltaToStartOfWeek(now)

Projected(b) == <<b[1] + ThisWeekStart, b[2] + ThisWeekStart>>

(* C25 as stated: every block whose projected end is after the start of    *)
(* the current week is in the merged list, wherever now is in the week,    *)
(* and the merged list is sorted by start.                                 *)
C25_AllWeekBlocksMerged ==
    pc \in {"slots", "assign", "failed", "done"} =>
        /\ \A b \in Range(blocks) :
              b[2] + ThisWeekStart > ThisWeekStart => Projected(b) \in Range(blocksL)
        /\ IsSortedByStart(blocksL)

(* C25 amended: every block whose projected end is after now is in the     *)
(* merged list, projected onto the current week, and the merged list is    *)
(* sorted by start; a block that has already ended this week is read by    *)
(* no run.                                                                 *)
C25_BlocksEndingAfterNowMerged ==
    pc \in {"slots", "assign", "failed", "done"} =>
        /\ \A b \in Range(blocks) :
              b[2] + ThisWeekStart > now => Projected(b) \in Range(blocksL)
        /\ IsSortedByStart(blocksL)

C25_Witness ==
    /\ pc = "slots"
    /\ now = ThisWeekStart + 90000
    /\ blocks = <<<<100000, 110000>>, <<28800, 57600>>>>
    /\ Projected(blocks[1]) \in Range(blocksL)
    /\ Projected(blocks[2]) \notin Range(blocksL)
    /\ Len(blocksL) = 3

(* C26: every event the assignment loop creates for a task of positive     *)
(* duration starts before it ends, however many tasks share a slot.        *)
C26_EventStartBeforeEnd ==
    \A e \in Range(inserted) :
        (\E t \in Range(tasksL) : t.iD = e.event /\ t.taskTime > 0) =>
            e.unixtimeStart < e.unixtimeEnd

(* C27: no free slot returned by _findAvailableTimeSlots shares an instant *)
(* with an interval of its input list, overlapping and nested intervals    *)
(* included.                                                               *)
C27_SlotsDisjointFromInput ==
    pc = "slotted" =>
        \A s \in Range(slotsRet) :
            \A b \in Range(blocksArg) :
                ~(s.blockStart < b[2] /\ b[1] < s.blockEnd)

(* C28: no event a run creates overlaps an occupied interval of the run's  *)
(* merged list, however many tasks go into one slot.                       *)
C28_EventsInsideGaps ==
    pc \in {"assign", "failed", "done"} =>
        \A e \in Range(inserted) :
            \A b \in Range(blocksL) :
                ~(e.unixtimeStart < b[2] /\ b[1] < e.unixtimeEnd)

(* C29: every event a run creates starts later than the run's now.         *)
C29_NotInThePast ==
    pc \in {"assign", "failed", "done"} =>
        \A e \in Range(inserted) : e.unixtimeStart > now

C29_Witness ==
    /\ pc = "done"
    /\ now = ThisWeekStart + 90000
    /\ \E b \in Range(blocks) : b[2] + ThisWeekStart < now
    /\ Len(inserted) = 2

(* C30: every event created by scheduleTasks(h) ends no later than         *)
(* now + h.                                                                *)
C30_InsideHorizon ==
    pc \in {"assign", "failed", "done"} =>
        \A e \in Range(inserted) : e.unixtimeEnd <= now + timeForecast[1] * 86400

====
